---- MODULE Spec2Model ----
(***************************************************************************)
(* standardcharts: the five chart classes of charts.py (BarChart,          *)
(* Histogram, LineChart, DoughnutChart, HexbinChart) and the click         *)
(* commands of main.py, as a state machine over one chart object.          *)
(*                                                                         *)
(* Numbers are exact rationals <<n, d>> (d > 0, lowest terms) extended     *)
(* with the three IEEE specials numpy produces on a division by zero:      *)
(* <<0,0>> is nan, <<1,0>> is inf, <<-1,0>> is -inf.  Rounding of binary   *)
(* floating point is not modelled.  Angles are kept in turns (fractions    *)
(* of 2*pi) and the hexagon rows in units of hex_size*sqrt(3)/2, so that   *)
(* pi and sqrt(3) never have to be evaluated.                              *)
(***************************************************************************)
EXTENDS Integers, Sequences, FiniteSets

\* ------------------------------------------------------------------ bounds

\* the largest number of data rows of an input table
MaxRows == 3

\* the largest --bins of a histogram
MaxBins == 2

\* the largest number of generate() calls in a row that leave self.chart_width
\* short of the legend's width
MaxCalls == 2

\* ------------------------------------------------------------- arithmetic

Abs(n) == IF n < 0 THEN -n ELSE n

Sgn(n) == IF n < 0 THEN -1 ELSE IF n > 0 THEN 1 ELSE 0

RECURSIVE GCD(_, _)
GCD(a, b) == IF b = 0 THEN a ELSE GCD(b, a % b)

\* the number n/d; a zero denominator gives nan, inf or -inf
Norm(n, d) ==
    IF d = 0 THEN <<Sgn(n), 0>>
    ELSE LET g == GCD(Abs(n), Abs(d))
         IN  <<(Sgn(d) * n) \div g, Abs(d) \div g>>

R(n) == <<n, 1>>

NaN == <<0, 0>>

IsNaN(a) == a = NaN

IsFinite(a) == a[2] # 0

RAdd(a, b) ==
    IF IsFinite(a) /\ IsFinite(b) THEN Norm(a[1] * b[2] + b[1] * a[2], a[2] * b[2])
    ELSE IF IsNaN(a) \/ IsNaN(b) THEN NaN
    ELSE IF IsFinite(a) THEN b
    ELSE IF IsFinite(b) THEN a
    ELSE IF a = b THEN a ELSE NaN

RNeg(a) == <<-a[1], a[2]>>

RSub(a, b) == RAdd(a, RNeg(b))

\* 0 * inf is nan: Norm(0, 0)
RMul(a, b) == Norm(a[1] * b[1], a[2] * b[2])

\* numpy's true division: x/0 is inf or -inf and 0/0 is nan (a RuntimeWarning,
\* not an exception)
NpDiv(a, b) == RMul(a, Norm(b[2], b[1]))

\* every comparison with nan is False
RLt(a, b) ==
    /\ ~IsNaN(a)
    /\ ~IsNaN(b)
    /\ a # b
    /\ IF IsFinite(a) /\ IsFinite(b) THEN a[1] * b[2] < b[1] * a[2]
       ELSE IF IsFinite(a) THEN b[1] > 0
       ELSE a[1] < 0

RGt(a, b) == RLt(b, a)

\* int(x) of a finite x: truncation toward zero
Trunc(a) == Sgn(a[1]) * (Abs(a[1]) \div a[2])

\* ------------------------------------------------------------ small helpers

RECURSIVE SumSeq(_)
SumSeq(s) == IF s = <<>> THEN 0 ELSE Head(s) + SumSeq(Tail(s))

RECURSIVE Flatten(_)
Flatten(ss) == IF ss = <<>> THEN <<>> ELSE Head(ss) \o Flatten(Tail(ss))

Min2(a, b) == IF a < b THEN a ELSE b

Max2(a, b) == IF a > b THEN a ELSE b

SetMin(S) == CHOOSE m \in S : \A x \in S : m <= x

SetMax(S) == CHOOSE m \in S : \A x \in S : m >= x

\* ------------------------------------------------------------------- input

\* a string is the sequence of its code points: "A" is <<65>>, "B<" is <<66, 60>>
\* ('<' is 60, '&' is 38)
Categories == {<<65>>, <<66, 60>>}

\* the numeric cells of the csv: those of column 1 in a table of two columns,
\* and those of column 1 and of column 2 in a table of three
Values == {0, 1, 2}

Values1 == {0, 2}

Values2 == {0, 1}

Kinds == {"bar", "histogram", "line", "doughnut", "hexbin"}

\* str comparison: lexicographic on code points
RECURSIVE StrLt(_, _)
StrLt(s, t) ==
    IF t = <<>> THEN FALSE
    ELSE IF s = <<>> THEN TRUE
    ELSE IF Head(s) # Head(t) THEN Head(s) < Head(t)
    ELSE StrLt(Tail(s), Tail(t))

\* a row of a table with n columns: column 0 is a string, the others numbers
RowsOf(n) ==
    IF n = 1 THEN {<<c>> : c \in Categories}
    ELSE IF n = 2 THEN {<<c, v>> : c \in Categories, v \in Values}
    ELSE {<<c, v, w>> : c \in Categories, v \in Values1, w \in Values2}

\* the DataFrames pd.read_csv can hand over with n columns
Tables(n) == UNION {[1..k -> RowsOf(n)] : k \in 0..MaxRows}

\* the fewest columns each chart type accepts
MinColumns(k) == IF k \in {"line", "hexbin"} THEN 3 ELSE 2

\* the columns a chart type reads: the bar chart reads every column, the
\* others the first MinColumns
ReadColumns(k) == IF k = "bar" THEN 3 ELSE MinColumns(k)

\* ------------------------------------------------------------------- state

VARIABLES
    kind,          \* the chart class
    data,          \* self.data: the rows of the DataFrame
    ncols,         \* len(self.data.columns)
    bins,          \* Histogram.bins (0 for the other classes)
    width,         \* self.width
    height,        \* self.height
    chart_width,   \* self.chart_width
    chart_height,  \* self.chart_height
    pc,            \* "input": no chart yet; "chart": the object exists;
                   \* "failed": the constructor raised; "exited": a command
                   \* of main.py ran to its end or to an exception
    result,        \* the last generate() call: "none", "returned", "raised"
    error,         \* the exception of the last raise, "" when none
    svg,           \* the svg_parts of the last generate() that returned
    written        \* where the command wrote the SVG, "" when it did not

vars == <<kind, data, ncols, bins, width, height, chart_width, chart_height,
          pc, result, error, svg, written>>

\* --------------------------------------------------------------- BaseChart

margin == [top |-> 20, right |-> 20, bottom |-> 40, left |-> 60]

\* click's defaults for --width and --height
DefaultWidth == 800

DefaultHeight == 600

Init ==
    /\ kind \in Kinds
    /\ ncols \in (MinColumns(kind) - 1)..ReadColumns(kind)
    /\ data \in Tables(ncols)
    /\ bins \in IF kind = "histogram" THEN 1..MaxBins ELSE {0}
    /\ width = DefaultWidth
    /\ height = DefaultHeight
    /\ chart_width = 0
    /\ chart_height = 0
    /\ pc = "input"
    /\ result = "none"
    /\ error = ""
    /\ svg = <<>>
    /\ written = ""

\* the check with <= for <
ValidatesTooFewInclusive(k, n) == n <= MinColumns(k)

\* _validate_data of the five classes: the column count check
ValidatesTooFew(k, n) == n < MinColumns(k)

\* BaseChart.__init__ followed by the subclass's _validate_data(): the object
\* exists only when _validate_data() returns
Construct ==
    /\ pc = "input"
    /\ IF ValidatesTooFew(kind, ncols)
       THEN /\ pc' = "failed"
            /\ error' = "ValueError"
            /\ UNCHANGED <<chart_width, chart_height>>
       ELSE /\ pc' = "chart"
            /\ error' = ""
            /\ chart_width' = width - margin.left - margin.right
            /\ chart_height' = height - margin.top - margin.bottom
    /\ UNCHANGED <<kind, data, ncols, bins, width, height, result, svg, written>>

\* ------------------------------------------------------------ ColorPalette

categorical_colors ==
    <<"rgb(211, 89, 28)", "rgb(236, 186, 102)", "rgb(135, 175, 63)",
      "rgb(88, 191, 172)", "rgb(101, 150, 207)", "rgb(202, 127, 204)">>

get_categorical_color(index) ==
    categorical_colors[(index % Len(categorical_colors)) + 1]

histogram_color == "rgb(101,150,207)"

\* the "Blues" ramp, which get_ramp_colors("Blues") returns
BluesRamp ==
    <<"rgb(9, 58, 81)", "rgb(32, 105, 138)", "rgb(101, 150, 207)",
      "rgb(182, 204, 230)", "rgb(217, 233, 252)">>

\* ------------------------------------------------------ formatting numbers

RECURSIVE Digits(_)
Digits(n) == IF n < 10 THEN <<48 + n>> ELSE Digits(n \div 10) \o <<48 + (n % 10)>>

\* the nearest integer to a finite a >= 0, ties to the even one
RoundHalfEven(a) ==
    LET q == a[1] \div a[2]
        r == a[1] - q * a[2]
    IN  IF 2 * r < a[2] THEN q
        ELSE IF 2 * r > a[2] THEN q + 1
        ELSE IF q % 2 = 0 THEN q ELSE q + 1

\* f"{a:.0f}" and f"{a:.1f}": the characters of a number in fixed notation
FormatFixed(a, decimals) ==
    IF IsNaN(a) THEN <<110, 97, 110>>
    ELSE IF ~IsFinite(a) THEN (IF a[1] < 0 THEN <<45>> ELSE <<>>) \o <<105, 110, 102>>
    ELSE LET scale == IF decimals = 0 THEN 1 ELSE 10
             m == RoundHalfEven(<<Abs(a[1]) * scale, a[2]>>)
             sign == IF a[1] < 0 THEN <<45>> ELSE <<>>
         IN  IF decimals = 0 THEN sign \o Digits(m)
             ELSE sign \o Digits(m \div 10) \o <<46>> \o Digits(m % 10)

\* f"{int(a)}"
FormatInt(a) == (IF a[1] < 0 THEN <<45>> ELSE <<>>) \o Digits(Abs(Trunc(a)))

\* ------------------------------------------------------ drawing primitives

SvgHeader(w, h) ==
    [tag |-> "header", width |-> w, height |-> h,
     translate |-> <<margin.left, margin.top>>]

SvgFooter == [tag |-> "footer"]

Rect(x, y, w, h, fill) ==
    [tag |-> "rect", x |-> x, y |-> y, w |-> w, h |-> h, fill |-> fill]

\* a <text> element: its content is inserted into the f-string as it is
Text(x, y, anchor, content) ==
    [tag |-> "text", x |-> x, y |-> y, anchor |-> anchor, content |-> content]

Line(x1, y1, x2, y2, class) ==
    [tag |-> "line", x1 |-> x1, y1 |-> y1, x2 |-> x2, y2 |-> y2, class |-> class]

Polyline(points, stroke) == [tag |-> "polyline", points |-> points, stroke |-> stroke]

\* the two axis lines every chart with axes draws
Axes(cw, ch) ==
    <<Line(R(0), R(ch), R(cw), R(ch), "axis-line"),
      Line(R(0), R(0), R(0), R(ch), "axis-line")>>

\* ----------------------------------------------------------------- groupby

\* the distinct values of column 0, in ascending order: groupby sorts its keys
\* (sort=True is the default)
RECURSIVE SortedKeys(_)
SortedKeys(S) ==
    IF S = {} THEN <<>>
    ELSE LET m == CHOOSE k \in S : \A o \in S : ~StrLt(o, k)
         IN  <<m>> \o SortedKeys(S \ {m})

\* the distinct values of column 0 in the order the rows first show them
RECURSIVE FirstSeenKeys(_)
FirstSeenKeys(rows) ==
    IF rows = <<>> THEN <<>>
    ELSE LET front == FirstSeenKeys(SubSeq(rows, 1, Len(rows) - 1))
             k == rows[Len(rows)][1]
         IN  IF \E i \in 1..Len(front) : front[i] = k THEN front ELSE front \o <<k>>

\* groupby(..., sort=False)
GroupKeysUnsorted(rows) == FirstSeenKeys(rows)

GroupKeys(rows) == SortedKeys({rows[i][1] : i \in 1..Len(rows)})

\* the rows of one group, in input order
RECURSIVE GroupRows(_, _)
GroupRows(rows, key) ==
    IF rows = <<>> THEN <<>>
    ELSE (IF Head(rows)[1] = key THEN <<Head(rows)>> ELSE <<>>)
         \o GroupRows(Tail(rows), key)

\* .sum() of one column (1-based position col) over a group
RECURSIVE ColumnSum(_, _)
ColumnSum(rows, col) ==
    IF rows = <<>> THEN 0 ELSE Head(rows)[col] + ColumnSum(Tail(rows), col)

\* the values of one column
Column(rows, col) == {rows[i][col] : i \in 1..Len(rows)}

\* ---------------------------------------------------------------- BarChart

legend_width == 120

\* 'value_0', 'value_1', ...
ValueColName(j) == <<118, 97, 108, 117, 101, 95>> \o Digits(j)

\* grouped: one record per category, its value columns summed
BarGrouped(rows, nc) ==
    LET keys == GroupKeys(rows)
    IN  [i \in 1..Len(keys) |->
            [category |-> keys[i],
             values |-> [j \in 1..(nc - 1) |-> ColumnSum(GroupRows(rows, keys[i]), j + 1)]]]

BarTotal(g) == SumSeq(g.values)

\* every segment drawn, the empty ones too
DrawsSegmentAlways(segment_height) == TRUE

\* the condition under which a stack segment is drawn
DrawsSegment(segment_height) == RGt(segment_height, R(0))

\* the rects of one bar: segment j sits on top of the segments before it
RECURSIVE BarSegments(_, _, _, _, _, _)
BarSegments(values, j, current_y, x, bar_width, y_scale) ==
    IF j > Len(values) THEN <<>>
    ELSE LET segment_height == RMul(R(values[j]), y_scale)
         IN  IF DrawsSegment(segment_height)
             THEN <<Rect(RAdd(x, RMul(bar_width, <<1, 10>>)),
                         RSub(current_y, segment_height),
                         RMul(bar_width, <<8, 10>>),
                         segment_height,
                         get_categorical_color(j - 1))>>
                  \o BarSegments(values, j + 1, RSub(current_y, segment_height),
                                 x, bar_width, y_scale)
             ELSE BarSegments(values, j + 1, current_y, x, bar_width, y_scale)

\* no scaling: a pixel per unit of value
BarYScaleUnscaled(ch, max_total) == R(1)

\* y_scale: pixels per unit of value
BarYScale(ch, max_total) == IF max_total > 0 THEN Norm(ch, max_total) ELSE R(1)

\* one bar: its segments, then its category label
BarOf(g, i, bar_width, y_scale, ch) ==
    LET x == RMul(R(i - 1), bar_width)
    IN  BarSegments(g.values, 1, R(ch), x, bar_width, y_scale)
        \o <<Text(RAdd(x, RMul(bar_width, <<1, 2>>)), R(ch + 20), "middle", g.category)>>

BarYLabel(i, max_total, y_scale, cw, ch) ==
    LET y_val == RMul(Norm(max_total, 4), R(i))
        y_pos == IF max_total > 0 THEN RSub(R(ch), RMul(y_val, y_scale)) ELSE R(ch)
    IN  <<Text(R(-10), RAdd(y_pos, R(4)), "end", FormatFixed(y_val, 0))>>
        \o (IF i > 0 THEN <<Line(R(0), y_pos, R(cw), y_pos, "tick-line")>> ELSE <<>>)

BarLegend(j, cw) ==
    LET legend_x == cw + 20
        rect_y == 20 + j * 20
    IN  <<Rect(R(legend_x), R(rect_y), R(12), R(12), get_categorical_color(j)),
          Text(R(legend_x + 18), R(rect_y + 9), "start", ValueColName(j))>>

\* BarChart.generate() from the division by len(categories) on: cw is the
\* chart width less the legend.  [err, parts]: the exception raised ("" when
\* none) and the svg_parts
BarGenerate(rows, nc, w, h, cw, ch) ==
    LET grouped == BarGrouped(rows, nc)
        n == Len(grouped)
    IN  IF n = 0
        THEN [err |-> "ZeroDivisionError", parts |-> <<>>]
        ELSE LET max_total == SetMax({BarTotal(grouped[i]) : i \in 1..n})
                 bar_width == Norm(cw, n)
                 y_scale == BarYScale(ch, max_total)
             IN  [err |-> "",
                  parts |->
                      <<SvgHeader(w, h)>>
                      \o Flatten([i \in 1..n |-> BarOf(grouped[i], i, bar_width, y_scale, ch)])
                      \o Axes(cw, ch)
                      \o Flatten([i \in 1..5 |-> BarYLabel(i - 1, max_total, y_scale, cw, ch)])
                      \o Flatten([j \in 1..(nc - 1) |-> BarLegend(j - 1, cw)])
                      \o <<SvgFooter>>]

\* BarChart.generate(): the legend's width is taken off self.chart_width on
\* entry and put back just before the return
GenerateBar ==
    /\ pc = "chart"
    /\ kind = "bar"
    /\ chart_width + MaxCalls * legend_width > width - margin.left - margin.right
    /\ LET out == BarGenerate(data, ncols, width, height,
                              chart_width - legend_width, chart_height)
       IN  IF out.err = ""
           THEN /\ result' = "returned"
                /\ error' = ""
                /\ svg' = out.parts
                /\ chart_width' = chart_width
           ELSE /\ result' = "raised"
                /\ error' = out.err
                /\ svg' = <<>>
                /\ chart_width' = chart_width - legend_width
    /\ UNCHANGED <<kind, data, ncols, bins, width, height, chart_height, pc, written>>

\* ----------------------------------------------------------- DoughnutChart

\* an annular wedge; the angles are in turns, clockwise from the x-axis
ArcPath(cx, cy, outerR, innerR, startAngle, endAngle, largeArc, fill) ==
    [tag |-> "path", cx |-> cx, cy |-> cy, outerR |-> outerR, innerR |-> innerR,
     startAngle |-> startAngle, endAngle |-> endAngle, largeArc |-> largeArc,
     fill |-> fill]

\* a <text> placed at a radius and an angle (in turns) around a centre
PolarText(cx, cy, radius, angle, anchor, content) ==
    [tag |-> "text", cx |-> cx, cy |-> cy, radius |-> radius, angle |-> angle,
     anchor |-> anchor, content |-> content]

\* grouped: one record per category, column 1 summed
DoughnutGrouped(rows) ==
    LET keys == GroupKeys(rows)
    IN  [i \in 1..Len(keys) |->
            [category |-> keys[i], value |-> ColumnSum(GroupRows(rows, keys[i]), 2)]]

\* (value / total) * pi: half the angle
WedgeAngleHalved(value, total) == NpDiv(R(value), R(2 * total))

\* a wedge's central angle in turns: (value / total) * 2 * pi is this many
\* times 2 * pi.  total is a numpy scalar, so 0/0 is nan
WedgeAngle(value, total) == NpDiv(R(value), R(total))

\* the wedges and labels from wedge i on, current_angle being where wedge i starts
RECURSIVE Wedges(_, _, _, _, _, _, _)
Wedges(grouped, i, total, current_angle, radius, cx, cy) ==
    IF i > Len(grouped) THEN <<>>
    ELSE LET angle == WedgeAngle(grouped[i].value, total)
             large_arc == IF RGt(angle, <<1, 2>>) THEN 1 ELSE 0
         IN  <<ArcPath(cx, cy, radius, RMul(radius, <<1, 2>>), current_angle,
                       RAdd(current_angle, angle), large_arc,
                       get_categorical_color(i - 1)),
               PolarText(cx, cy, RAdd(radius, R(20)),
                         RAdd(current_angle, RMul(angle, <<1, 2>>)),
                         "middle", grouped[i].category)>>
             \o Wedges(grouped, i + 1, total, RAdd(current_angle, angle), radius, cx, cy)

\* DoughnutChart.generate()
DoughnutGenerate(rows, w, h, cw, ch) ==
    LET grouped == DoughnutGrouped(rows)
        total == SumSeq([i \in 1..Len(grouped) |-> grouped[i].value])
        radius == Norm(Min2(cw, ch) * 8, 20)
    IN  [err |-> "",
         parts |-> <<SvgHeader(w, h)>>
                   \o Wedges(grouped, 1, total, R(0), radius, Norm(cw, 2), Norm(ch, 2))
                   \o <<SvgFooter>>]

GenerateDoughnut ==
    /\ pc = "chart"
    /\ kind = "doughnut"
    /\ LET out == DoughnutGenerate(data, width, height, chart_width, chart_height)
       IN  /\ result' = "returned"
           /\ error' = out.err
           /\ svg' = out.parts
    /\ UNCHANGED <<kind, data, ncols, bins, width, height, chart_width, chart_height,
                   pc, written>>

\* --------------------------------------------------------------- Histogram

\* pd.cut(values, bins=n, retbins=True), right=True: n + 1 edges, equally
\* spaced from min to max, the first one then lowered by 0.1% of the range so
\* that min falls inside the first interval; when min = max both ends are
\* first moved out by 0.1% of |min| (by 0.001 when min is 0)
CutEdges(values, n) ==
    LET mn == SetMin(values)
        mx == SetMax(values)
        d == IF mn # 0 THEN Norm(Abs(mn), 1000) ELSE <<1, 1000>>
        lo == IF mn = mx THEN RSub(R(mn), d) ELSE R(mn)
        hi == IF mn = mx THEN RAdd(R(mx), d) ELSE R(mx)
        adj == IF mn = mx THEN R(0) ELSE Norm(mx - mn, 1000)
        step == NpDiv(RSub(hi, lo), R(n))
    IN  <<RSub(lo, adj)>> \o [k \in 1..n |-> RAdd(lo, RMul(R(k), step))]

\* the intervals closed on the left instead: searchsorted(x, side="right")
CutBinRightOpen(x, edges) == Cardinality({k \in 1..Len(edges) : ~RLt(R(x), edges[k])})

\* the interval a value falls in, 1..n: bins.searchsorted(x, side="left"), the
\* number of edges below x, so interval k is (edge k, edge k+1]
CutBin(x, edges) == Cardinality({k \in 1..Len(edges) : RLt(edges[k], R(x))})

\* hist.value_counts().sort_index(): the rows in each interval, in interval order
BinCounts(rows, edges) ==
    LET bin == [v \in Column(rows, 2) |-> CutBin(v, edges)]
    IN  [k \in 1..(Len(edges) - 1) |->
            Cardinality({i \in 1..Len(rows) : bin[rows[i][2]] = k})]

HistYLabel(i, max_count, y_scale, cw, ch) ==
    LET y_val == RMul(Norm(max_count, 4), R(i))
        y_pos == RSub(R(ch), RMul(y_val, y_scale))
    IN  <<Text(R(-10), RAdd(y_pos, R(4)), "end", FormatInt(y_val))>>
        \o (IF i > 0 THEN <<Line(R(0), y_pos, R(cw), y_pos, "tick-line")>> ELSE <<>>)

\* range(0, n + 1, step) as a sequence
RangeStep(n, step) == [j \in 1..((n \div step) + 1) |-> (j - 1) * step]

\* Histogram.generate(): pd.cut raises ValueError on an empty column
HistogramGenerate(rows, n, w, h, cw, ch) ==
    IF rows = <<>>
    THEN [err |-> "ValueError", parts |-> <<>>]
    ELSE LET bin_edges == CutEdges(Column(rows, 2), n)
             counts == BinCounts(rows, bin_edges)
             max_count == SetMax({counts[k] : k \in 1..n})
             bin_width == Norm(cw, n)
             y_scale == NpDiv(R(ch), R(max_count))
             ticks == RangeStep(n, Max2(1, n \div 5))
         IN  [err |-> "",
              parts |->
                  <<SvgHeader(w, h)>>
                  \o [k \in 1..n |->
                         Rect(RMul(R(k - 1), bin_width),
                              RSub(R(ch), RMul(R(counts[k]), y_scale)),
                              RSub(bin_width, R(1)),
                              RMul(R(counts[k]), y_scale),
                              histogram_color)]
                  \o Axes(cw, ch)
                  \o [j \in 1..Len(ticks) |->
                         Text(RMul(R(ticks[j]), bin_width), R(ch + 20), "middle",
                              FormatFixed(bin_edges[ticks[j] + 1], 1))]
                  \o Flatten([i \in 1..5 |-> HistYLabel(i - 1, max_count, y_scale, cw, ch)])
                  \o <<SvgFooter>>]

GenerateHistogram ==
    /\ pc = "chart"
    /\ kind = "histogram"
    /\ LET out == HistogramGenerate(data, bins, width, height, chart_width, chart_height)
       IN  /\ result' = IF out.err = "" THEN "returned" ELSE "raised"
           /\ error' = out.err
           /\ svg' = out.parts
    /\ UNCHANGED <<kind, data, ncols, bins, width, height, chart_width, chart_height,
                   pc, written>>

\* --------------------------------------------------------------- LineChart

\* (pd.to_datetime(t1) - pd.to_datetime(t0)).total_seconds(): the time cells
\* are instants counted in seconds
TotalSeconds(t1, t0) == t1 - t0

\* group_data.sort_values('time'): the rows of a group by ascending time, rows
\* of equal time in input order
RECURSIVE SortByTime(_)
SortByTime(rows) ==
    IF rows = <<>> THEN <<>>
    ELSE LET sorted == SortByTime(SubSeq(rows, 1, Len(rows) - 1))
             last == rows[Len(rows)]
             n == Cardinality({i \in 1..Len(sorted) : sorted[i][2] <= last[2]})
         IN  SubSeq(sorted, 1, n) \o <<last>> \o SubSeq(sorted, n + 1, Len(sorted))

\* whether a group's points are drawn as a polyline
DrawsPolyline(points) == Len(points) > 1

\* the (x, y) of one row; time_range is not 0 here
LinePoint(row, min_time, time_range, min_value, value_range, cw, ch) ==
    <<RMul(Norm(TotalSeconds(row[2], min_time), time_range), R(cw)),
      RSub(R(ch), RMul(NpDiv(RSub(R(row[3]), min_value), value_range), R(ch)))>>

\* the polyline of group i, if it has one
LineOf(rows, key, i, min_time, time_range, min_value, value_range, cw, ch) ==
    LET group_data == SortByTime(GroupRows(rows, key))
        points == [p \in 1..Len(group_data) |->
                      LinePoint(group_data[p], min_time, time_range, min_value,
                                value_range, cw, ch)]
    IN  IF DrawsPolyline(points)
        THEN <<Polyline(points, get_categorical_color(i - 1))>>
        ELSE <<>>

LineYLabel(i, min_value, value_range, cw, ch) ==
    LET y_val == RAdd(min_value, RMul(NpDiv(value_range, R(4)), R(i)))
        y_pos == RSub(R(ch), RMul(NpDiv(RSub(y_val, min_value), value_range), R(ch)))
    IN  <<Text(R(-10), RAdd(y_pos, R(4)), "end", FormatFixed(y_val, 1))>>
        \o (IF i > 0 /\ i < 4 THEN <<Line(R(0), y_pos, R(cw), y_pos, "tick-line")>>
            ELSE <<>>)

\* LineChart.generate().  The x of a point divides two Python floats, so a
\* time range of 0 raises ZeroDivisionError at the first row; the value
\* arithmetic is numpy's, where 0/0 is nan.  With no rows at all the min and
\* max are NaT and nan and nothing is divided by 0
LineGenerate(rows, w, h, cw, ch) ==
    LET keys == GroupKeys(rows)
        empty == rows = <<>>
        min_time == IF empty THEN 0 ELSE SetMin(Column(rows, 2))
        time_range == IF empty THEN 0 ELSE TotalSeconds(SetMax(Column(rows, 2)), min_time)
        min_value == IF empty THEN NaN ELSE R(SetMin(Column(rows, 3)))
        value_range == IF empty THEN NaN
                       ELSE R(SetMax(Column(rows, 3)) - SetMin(Column(rows, 3)))
    IN  IF ~empty /\ time_range = 0
        THEN [err |-> "ZeroDivisionError", parts |-> <<>>]
        ELSE [err |-> "",
              parts |->
                  <<SvgHeader(w, h)>>
                  \o Flatten([i \in 1..Len(keys) |->
                                 LineOf(rows, keys[i], i, min_time, time_range,
                                        min_value, value_range, cw, ch)])
                  \o Axes(cw, ch)
                  \o Flatten([i \in 1..5 |-> LineYLabel(i - 1, min_value, value_range, cw, ch)])
                  \o <<SvgFooter>>]

GenerateLine ==
    /\ pc = "chart"
    /\ kind = "line"
    /\ LET out == LineGenerate(data, width, height, chart_width, chart_height)
       IN  /\ result' = IF out.err = "" THEN "returned" ELSE "raised"
           /\ error' = out.err
           /\ svg' = out.parts
    /\ UNCHANGED <<kind, data, ncols, bins, width, height, chart_width, chart_height,
                   pc, written>>

\* ------------------------------------------------------------- HexbinChart

hex_size == 20

\* a hexagon: x is its centre's x in pixels, y_half its centre's y in units
\* of hex_size * sqrt(3) / 2
Polygon(x, y_half, radius, fill) ==
    [tag |-> "polygon", x |-> x, y_half |-> y_half, radius |-> radius, fill |-> fill]

\* hex_cols = int(chart_width / (hex_size * 1.5)) + 1
HexCols(cw) == ((2 * cw) \div (3 * hex_size)) + 1

\* hex_rows = int(chart_height / (hex_size * sqrt(3))) + 1: the int() is the
\* largest n with n * hex_size * sqrt(3) <= chart_height
HexRows(ch) ==
    Cardinality({n \in 1..(ch \div hex_size) : 3 * n * n * hex_size * hex_size <= ch * ch}) + 1

\* (value - min) / range, numpy's division
HexNorm(v, lo, range) == NpDiv(R(v - lo), R(range))

\* int(norm * cells): the cell index along one axis
HexIndex(norm, cells) == Trunc(RMul(norm, R(cells)))

\* hex_counts after the rows given: the occupied cells in the order they were
\* first hit, each with its count
RECURSIVE HexCounts(_)
HexCounts(cells) ==
    IF cells = <<>> THEN <<>>
    ELSE LET before == HexCounts(SubSeq(cells, 1, Len(cells) - 1))
             key == cells[Len(cells)]
         IN  IF \E i \in 1..Len(before) : before[i].key = key
             THEN [i \in 1..Len(before) |->
                      IF before[i].key = key
                      THEN [key |-> key, count |-> before[i].count + 1]
                      ELSE before[i]]
             ELSE before \o <<[key |-> key, count |-> 1]>>

\* one hexagon: odd columns sit half a hexagon lower
HexagonOf(cell, max_count) ==
    LET col == cell.key[1]
        row == cell.key[2]
        color_idx == Min2(Trunc(RMul(Norm(cell.count, max_count), R(Len(BluesRamp) - 1))),
                          Len(BluesRamp) - 1)
    IN  Polygon(Norm(col * 3 * hex_size, 2), 2 * row + (col % 2), hex_size,
                BluesRamp[color_idx + 1])

HexAxisLabels(i, x_min, x_range, y_min, y_range, cw, ch) ==
    LET x_val == RAdd(R(x_min), RMul(Norm(x_range, 4), R(i)))
        y_val == RAdd(R(y_min), RMul(Norm(y_range, 4), R(i)))
    IN  <<Text(RMul(Norm(i, 4), R(cw)), R(ch + 20), "middle", FormatFixed(x_val, 1)),
          Text(R(-10), RAdd(RSub(R(ch), RMul(Norm(i, 4), R(ch))), R(4)), "end",
               FormatFixed(y_val, 1))>>

\* HexbinChart.generate(): with no rows hex_counts stays empty and the header
\* and footer are returned alone; int() of a nan raises ValueError
HexbinGenerate(rows, w, h, cw, ch) ==
    IF rows = <<>>
    THEN [err |-> "", parts |-> <<SvgHeader(w, h), SvgFooter>>]
    ELSE LET x_min == SetMin(Column(rows, 2))
             y_min == SetMin(Column(rows, 3))
             x_range == SetMax(Column(rows, 2)) - x_min
             y_range == SetMax(Column(rows, 3)) - y_min
             x_norm(i) == HexNorm(rows[i][2], x_min, x_range)
             y_norm(i) == HexNorm(rows[i][3], y_min, y_range)
         IN  IF \E i \in 1..Len(rows) : IsNaN(x_norm(i)) \/ IsNaN(y_norm(i))
             THEN [err |-> "ValueError", parts |-> <<>>]
             ELSE LET hex_cols == HexCols(cw)
                      hex_rows == HexRows(ch)
                      cells == [i \in 1..Len(rows) |->
                                   <<HexIndex(x_norm(i), hex_cols),
                                     HexIndex(y_norm(i), hex_rows)>>]
                      hex_counts == HexCounts(cells)
                      max_count == SetMax({hex_counts[i].count : i \in 1..Len(hex_counts)})
                  IN  [err |-> "",
                       parts |->
                           <<SvgHeader(w, h)>>
                           \o [i \in 1..Len(hex_counts) |-> HexagonOf(hex_counts[i], max_count)]
                           \o Axes(cw, ch)
                           \o Flatten([i \in 1..5 |->
                                          HexAxisLabels(i - 1, x_min, x_range, y_min,
                                                        y_range, cw, ch)])
                           \o <<SvgFooter>>]

GenerateHexbin ==
    /\ pc = "chart"
    /\ kind = "hexbin"
    /\ LET out == HexbinGenerate(data, width, height, chart_width, chart_height)
       IN  /\ result' = IF out.err = "" THEN "returned" ELSE "raised"
           /\ error' = out.err
           /\ svg' = out.parts
    /\ UNCHANGED <<kind, data, ncols, bins, width, height, chart_width, chart_height,
                   pc, written>>

\* ------------------------------------------------------ the SVG document

\* the document is a sequence of tokens: the XML declaration, a start tag, an
\* end tag, an empty-element tag, or one character of character data
Decl == [t |-> "decl", name |-> "xml", cp |-> 0]

Open(name) == [t |-> "open", name |-> name, cp |-> 0]

Close(name) == [t |-> "close", name |-> name, cp |-> 0]

Empty(name) == [t |-> "empty", name |-> name, cp |-> 0]

Char(cp) == [t |-> "char", name |-> "", cp |-> cp]

\* what '\n'.join(svg_parts) holds for one part.  _create_svg_header opens
\* <svg> and <g> around a closed <style>; _create_svg_footer closes both; the
\* content of a <text> goes into the f-string character by character, unescaped
Serialize(part) ==
    IF part.tag = "header"
    THEN <<Decl, Open("svg"), Open("style"), Close("style"), Open("g")>>
    ELSE IF part.tag = "footer"
    THEN <<Close("g"), Close("svg")>>
    ELSE IF part.tag = "text"
    THEN <<Open("text")>>
         \o [i \in 1..Len(part.content) |-> Char(part.content[i])]
         \o <<Close("text")>>
    ELSE <<Empty(part.tag)>>

Document(parts) == Flatten([i \in 1..Len(parts) |-> Serialize(parts[i])])

IsLetter(cp) == cp \in 65..90 \/ cp \in 97..122

\* in character data a '<' (60) must start a tag and a '&' (38) a reference:
\* the next token has to be a character that can begin one
MarkupOk(doc, i) ==
    \/ doc[i].cp \notin {38, 60}
    \/ /\ i < Len(doc)
       /\ doc[i + 1].t = "char"
       /\ \/ IsLetter(doc[i + 1].cp)
          \/ doc[i].cp = 38 /\ doc[i + 1].cp = 35
          \/ doc[i].cp = 60 /\ doc[i + 1].cp \in {33, 47, 63}

\* the start tags still open after the first i tokens, innermost last;
\* <<"#error">> once an end tag has matched no start tag
RECURSIVE OpenTags(_, _)
OpenTags(doc, i) ==
    IF i = 0 THEN <<>>
    ELSE LET before == OpenTags(doc, i - 1)
             tok == doc[i]
         IN  IF before = <<"#error">> THEN before
             ELSE IF tok.t = "open" THEN Append(before, tok.name)
             ELSE IF tok.t = "close"
             THEN IF before # <<>> /\ before[Len(before)] = tok.name
                  THEN SubSeq(before, 1, Len(before) - 1)
                  ELSE <<"#error">>
             ELSE before

\* what an XML parser needs of the document: at most one declaration and only
\* at the start, every end tag closing the innermost open start tag, nothing
\* left open, exactly one root element and it is <svg>, all else inside it,
\* and no stray markup character in the character data
WellFormed(doc) ==
    /\ \A i \in 1..Len(doc) : doc[i].t = "decl" => i = 1
    /\ OpenTags(doc, Len(doc)) = <<>>
    /\ Cardinality({i \in 1..Len(doc) :
                       doc[i].t \in {"open", "empty"} /\ OpenTags(doc, i - 1) = <<>>}) = 1
    /\ \E i \in 1..Len(doc) :
           doc[i].t = "open" /\ doc[i].name = "svg" /\ OpenTags(doc, i - 1) = <<>>
    /\ \A i \in 1..Len(doc) : doc[i].t = "char" => OpenTags(doc, i - 1) # <<>>
    /\ \A i \in 1..Len(doc) : doc[i].t = "char" => MarkupOk(doc, i)

\* ------------------------------------------------------------------ main.py

\* the parameters of each class's __init__ after self; none has a default
InitParams(k) ==
    IF k = "histogram" THEN <<"data", "width", "height", "bins">>
    ELSE <<"data", "width", "height">>

\* the arguments each command passes to the constructor: how many by
\* position, and which by keyword
CallPositional(k) == IF k = "histogram" THEN 4 ELSE 3

CallKeywords(k) ==
    IF k = "histogram" THEN {"color"}
    ELSE IF k = "hexbin" THEN {"color_ramp"}
    ELSE {"color_palette"}

\* Python's argument binding: every argument finds a parameter and every
\* parameter gets exactly one argument; otherwise the call raises TypeError
Binds(params, npos, kws) ==
    /\ npos <= Len(params)
    /\ kws = {params[i] : i \in (npos + 1)..Len(params)}

\* generate() of the class k on a chart with these fields
GenerateOf(k, rows, nc, b, w, h, cw, ch) ==
    IF k = "bar" THEN BarGenerate(rows, nc, w, h, cw - legend_width, ch)
    ELSE IF k = "histogram" THEN HistogramGenerate(rows, b, w, h, cw, ch)
    ELSE IF k = "line" THEN LineGenerate(rows, w, h, cw, ch)
    ELSE IF k = "doughnut" THEN DoughnutGenerate(rows, w, h, cw, ch)
    ELSE HexbinGenerate(rows, w, h, cw, ch)

\* _write_output: the --output file, else the input's name with its suffix
\* replaced by .<chart_type>.svg, else stdout
WriteOutput(output, filename) ==
    IF output THEN "output" ELSE IF filename THEN "with_suffix" ELSE "stdout"

\* one command, from _read_csv_data to _write_output: output and filename
\* tell whether --output and the FILENAME argument were given
Command(k, output, filename) ==
    /\ pc = "input"
    /\ kind = k
    /\ IF ~Binds(InitParams(k), CallPositional(k), CallKeywords(k))
       THEN /\ error' = "TypeError"
            /\ UNCHANGED <<chart_width, chart_height, result, svg, written>>
       ELSE IF ValidatesTooFew(k, ncols)
       THEN /\ error' = "ValueError"
            /\ UNCHANGED <<chart_width, chart_height, result, svg, written>>
       ELSE LET cw == width - margin.left - margin.right
                ch == height - margin.top - margin.bottom
                out == GenerateOf(k, data, ncols, bins, width, height, cw, ch)
            IN  /\ error' = out.err
                /\ result' = IF out.err = "" THEN "returned" ELSE "raised"
                /\ svg' = out.parts
                /\ chart_width' = IF k = "bar" /\ out.err # "" THEN cw - legend_width ELSE cw
                /\ chart_height' = ch
                /\ written' = IF out.err = "" THEN WriteOutput(output, filename) ELSE ""
    /\ pc' = "exited"
    /\ UNCHANGED <<kind, data, ncols, bins, width, height>>

bar == \E output \in BOOLEAN, filename \in BOOLEAN : Command("bar", output, filename)

histogram == \E output \in BOOLEAN, filename \in BOOLEAN : Command("histogram", output, filename)

line == \E output \in BOOLEAN, filename \in BOOLEAN : Command("line", output, filename)

doughnut == \E output \in BOOLEAN, filename \in BOOLEAN : Command("doughnut", output, filename)

hexbin == \E output \in BOOLEAN, filename \in BOOLEAN : Command("hexbin", output, filename)

Next ==
    \/ Construct
    \/ GenerateBar
    \/ GenerateHistogram
    \/ GenerateLine
    \/ GenerateDoughnut
    \/ GenerateHexbin
    \/ bar
    \/ histogram
    \/ line
    \/ doughnut
    \/ hexbin

Spec == Init /\ [][Next]_vars


\* ================================================================= claims

\* generate() has returned an SVG on the chart object
Returned == pc = "chart" /\ result = "returned"

\* the parts of the returned SVG with a given tag, in document order
PartsTagged(tag) == SelectSeq(svg, LAMBDA p : p.tag = tag)

\* the category labels of a bar or doughnut chart: its middle-anchored texts
CategoryLabels == SelectSeq(svg, LAMBDA p : p.tag = "text" /\ p.anchor = "middle")

\* the column minimum the specification gives each chart type
StatedMinimum(k) == IF k \in {"bar", "histogram", "doughnut"} THEN 2 ELSE 3

\* the inner drawable size the specification gives: outer less the margins
InnerWidth == width - 80

InnerHeight == height - 60

Degenerate ==
    /\ data # <<>>
    /\ \/ /\ kind = "bar"
          /\ \A i \in 1..Len(data) : \A j \in 2..ncols : data[i][j] = 0
       \/ /\ kind = "doughnut"
          /\ \A i \in 1..Len(data) : data[i][2] = 0
       \/ /\ kind = "line"
          /\ \/ Cardinality(Column(data, 2)) = 1
             \/ Cardinality(Column(data, 3)) = 1
             \/ \E k \in Column(data, 1) : Len(GroupRows(data, k)) = 1
       \/ /\ kind = "hexbin"
          /\ \/ Cardinality(Column(data, 2)) = 1
             \/ Cardinality(Column(data, 3)) = 1

\* C2: generate() never raises on well-formed but degenerate input; it
\* returns an SVG string.
C2_DegenerateNeverRaises == (pc = "chart" /\ Degenerate) => result # "raised"

\* ------------------------------------------------------------------- C3
\* slot i of the bar chart is centred on (i - 1/2) slot widths, the slot width
\* being the inner width less the 120px legend over the number of categories;
\* wedge i of the doughnut is the i-th path, its label at its mid-angle, and
\* the first wedge starts at angle 0
SlotsInOrder(labels) ==
    LET n == Len(labels)
        paths == PartsTagged("path")
    IN  /\ kind = "bar" =>
              \A i \in 1..n : labels[i].x = Norm((2 * i - 1) * (InnerWidth - 120), 2 * n)
        /\ kind = "doughnut" =>
              /\ Len(paths) = n
              /\ n > 0 => paths[1].startAngle = R(0)
              /\ \A i \in 1..n :
                     labels[i].angle =
                         RMul(RAdd(paths[i].startAngle, paths[i].endAngle), <<1, 2>>)

\* C3 as stated: in the stacked bar chart and the doughnut chart slot i
\* (wedge i, from angle 0) belongs to the i-th distinct category to appear in
\* the input rows, for every input order.
C3_FirstSeenOrder ==
    (Returned /\ kind \in {"bar", "doughnut"}) =>
        LET labels == CategoryLabels
            seen == FirstSeenKeys(data)
        IN  /\ Len(labels) = Len(seen)
            /\ \A i \in 1..Len(seen) : labels[i].content = seen[i]
            /\ SlotsInOrder(labels)

\* C3 amended: slot i (wedge i, from angle 0) belongs to the i-th distinct
\* category in ascending order of the category keys, whatever the order of
\* the input rows.
C3_SortedOrder ==
    (Returned /\ kind \in {"bar", "doughnut"}) =>
        LET labels == CategoryLabels
            n == Len(labels)
        IN  /\ n = Cardinality(Column(data, 1))
            /\ {labels[i].content : i \in 1..n} = Column(data, 1)
            /\ \A i \in 1..(n - 1) : StrLt(labels[i].content, labels[i + 1].content)
            /\ SlotsInOrder(labels)

\* a chart of two categories whose input shows the greater key first
C3_Witness ==
    /\ Returned
    /\ kind \in {"bar", "doughnut"}
    /\ Len(data) >= 2
    /\ StrLt(data[2][1], data[1][1])
    /\ Len(CategoryLabels) = 2

\* ------------------------------------------------------------- C4 and C5
\* what the input says of a bar chart: the summed value of category c in
\* value column j (1-based), its total, and the largest total
CategoryValue(c, j) == ColumnSum(GroupRows(data, c), j + 1)

CategoryTotal(c) == SumSeq([j \in 1..(ncols - 1) |-> CategoryValue(c, j)])

MaxTotal == SetMax({CategoryTotal(c) : c \in Column(data, 1)})

\* the width of one bar slot
SlotWidth == Norm(InnerWidth - 120, Cardinality(Column(data, 1)))

\* the axis labels of category c
LabelsOf(c) == SelectSeq(CategoryLabels, LAMBDA p : p.content = c)

\* the rects drawn in the slot of category c, in document order: the slot is
\* the one the category's label is centred under
SlotRects(c) ==
    LET left == RSub(LabelsOf(c)[1].x, RMul(SlotWidth, <<1, 2>>))
    IN  SelectSeq(PartsTagged("rect"),
                  LAMBDA p : /\ p.x = RAdd(left, RMul(SlotWidth, <<1, 10>>))
                             /\ p.w = RMul(SlotWidth, <<8, 10>>))

\* the value columns of category c that hold a positive value, in column order
PositiveColumns(c) ==
    SelectSeq([j \in 1..(ncols - 1) |-> j], LAMBDA j : CategoryValue(c, j) > 0)

RECURSIVE SumHeights(_)
SumHeights(rects) ==
    IF rects = <<>> THEN R(0) ELSE RAdd(rects[1].h, SumHeights(Tail(rects)))

\* C4: in the stacked bar chart with non-negative values and maxTotal > 0,
\* every segment has height value * (innerHeight / maxTotal); the segments of
\* one category stack bottom-up in value-column order, without gap or
\* overlap, from y = innerHeight; and the category whose total is maxTotal
\* has combined segment height exactly innerHeight, its top segment starting
\* at y = 0.  (Segments are the rects drawn; C5 settles the zero values.)
C4_StackedSegments ==
    (Returned /\ kind = "bar" /\ MaxTotal > 0) =>
        \A c \in Column(data, 1) :
            /\ Len(LabelsOf(c)) = 1
            /\ LET rects == SlotRects(c)
                   cols == PositiveColumns(c)
               IN  /\ Len(rects) = Len(cols)
                   /\ \A k \in 1..Len(rects) :
                          /\ rects[k].fill = categorical_colors[cols[k]]
                          /\ rects[k].h = Norm(CategoryValue(c, cols[k]) * InnerHeight, MaxTotal)
                          /\ RAdd(rects[k].y, rects[k].h) =
                                 IF k = 1 THEN R(InnerHeight) ELSE rects[k - 1].y
                   /\ CategoryTotal(c) = MaxTotal =>
                          /\ rects # <<>>
                          /\ rects[Len(rects)].y = R(0)
                          /\ SumHeights(rects) = R(InnerHeight)

\* a bar of two segments that fills the height beside a shorter bar
C4_Witness ==
    /\ Returned
    /\ kind = "bar"
    /\ ncols = 3
    /\ \E c, d \in Column(data, 1) :
           /\ CategoryValue(c, 1) > 0
           /\ CategoryValue(c, 2) > 0
           /\ CategoryTotal(c) = MaxTotal
           /\ CategoryTotal(d) > 0
           /\ CategoryTotal(d) < MaxTotal
           /\ Len(SlotRects(c)) = 2

\* a category all of whose value columns are 0 beside one with a positive total
ZeroBeside(c) ==
    /\ c \in Column(data, 1)
    /\ CategoryTotal(c) = 0
    /\ MaxTotal > 0

\* C5 as stated: such a category still renders a rect of height 0 for its
\* segments and still renders its category axis label; no crash occurs.
C5_ZeroHeightRect ==
    (pc = "chart" /\ kind = "bar" /\ result # "none") =>
        \A c \in Column(data, 1) :
            ZeroBeside(c) =>
                /\ result = "returned"
                /\ Len(LabelsOf(c)) = 1
                /\ \A j \in 1..(ncols - 1) :
                       \E k \in 1..Len(SlotRects(c)) :
                           /\ SlotRects(c)[k].h = R(0)
                           /\ SlotRects(c)[k].fill = categorical_colors[j]

\* C5 amended: such a category renders no rect at all (a segment of height 0
\* is skipped) but still renders its category axis label; no crash occurs.
C5_ZeroSegmentsSkipped ==
    (pc = "chart" /\ kind = "bar" /\ result # "none") =>
        \A c \in Column(data, 1) :
            ZeroBeside(c) =>
                /\ result = "returned"
                /\ Len(LabelsOf(c)) = 1
                /\ SlotRects(c) = <<>>

\* a bar chart was drawn for an all-zero category beside a positive one
C5_Witness ==
    /\ Returned
    /\ kind = "bar"
    /\ ncols = 3
    /\ \E c \in Column(data, 1) : ZeroBeside(c) /\ Len(LabelsOf(c)) = 1

\* ------------------------------------------------------------------- C6
\* the summed value of category c in a doughnut chart, and the grand total
WedgeValue(c) == ColumnSum(GroupRows(data, c), 2)

GrandTotal == ColumnSum(data, 2)

\* C6: in the doughnut chart with a positive total each wedge spans
\* (sum/total) of a full turn, the first wedge starts at angle 0, each wedge
\* starts where the previous one ended, and the running angle after the last
\* wedge is one full turn (2*pi), for every category order.
C6_WedgesFillTheTurn ==
    (Returned /\ kind = "doughnut" /\ GrandTotal > 0) =>
        LET paths == PartsTagged("path")
            labels == CategoryLabels
            n == Len(paths)
        IN  /\ n = Cardinality(Column(data, 1))
            /\ Len(labels) = n
            /\ paths[1].startAngle = R(0)
            /\ \A i \in 1..n :
                   RSub(paths[i].endAngle, paths[i].startAngle) =
                       Norm(WedgeValue(labels[i].content), GrandTotal)
            /\ \A i \in 2..n : paths[i].startAngle = paths[i - 1].endAngle
            /\ paths[n].endAngle = R(1)

\* a doughnut of two wedges, both of positive angle
C6_Witness ==
    /\ Returned
    /\ kind = "doughnut"
    /\ Len(PartsTagged("path")) = 2
    /\ \A c \in Column(data, 1) : WedgeValue(c) > 0

\* ------------------------------------------------------------------- C7
\* the polylines of the series id: the series are coloured in ascending
\* order of id, so series number r has the r-th categorical colour
PolylinesOf(id) ==
    LET r == Cardinality({o \in Column(data, 1) : StrLt(o, id)}) + 1
    IN  SelectSeq(PartsTagged("polyline"), LAMBDA p : p.stroke = categorical_colors[r])

\* C7: in the line chart, for every id group, a group with exactly 1 row
\* produces no polyline element and a group with 2 or more rows produces
\* exactly one polyline whose number of points equals its number of rows.
C7_PolylinePerGroup ==
    (pc = "chart" /\ kind = "line" /\ result # "none") =>
        \A id \in Column(data, 1) :
            LET n == Len(GroupRows(data, id))
            IN  /\ n = 1 => PolylinesOf(id) = <<>>
                /\ n >= 2 => /\ Len(PolylinesOf(id)) = 1
                             /\ Len(PolylinesOf(id)[1].points) = n

\* ------------------------------------------------------------------- C8
ValueMin == SetMin(Column(data, 2))

ValueMax == SetMax(Column(data, 2))

\* the bars of the histogram show these counts: bar k has height
\* count k * innerHeight / the largest count, and there is one bar per bin
BarsShow(counts) ==
    LET rects == PartsTagged("rect")
        most == SetMax({counts[k] : k \in 1..bins})
    IN  /\ Len(rects) = bins
        /\ \A k \in 1..bins : rects[k].h = Norm(counts[k] * InnerHeight, most)

\* the rows counted in bin k when the bins are [edge, edge) and the last one
\* [edge, max]: a value on an interior edge goes to the right
RightOpenCount(k) ==
    Cardinality({i \in 1..Len(data) :
        LET off == (data[i][2] - ValueMin) * bins
            w == ValueMax - ValueMin
        IN  IF k = bins THEN off >= (k - 1) * w ELSE off >= (k - 1) * w /\ off < k * w})

\* the rows counted in bin k when the bins are (edge, edge] and the first one
\* reaches below min: a value on an interior edge goes to the left.  When all
\* values are equal the edges run from just below to just above the value, and
\* the value lies in the bin k with 2(k - 1) < bins <= 2k
RightClosedCount(k) ==
    Cardinality({i \in 1..Len(data) :
        LET off == (data[i][2] - ValueMin) * bins
            w == ValueMax - ValueMin
        IN  IF w = 0 THEN 2 * (k - 1) < bins /\ bins <= 2 * k
            ELSE IF k = 1 THEN off <= w ELSE off > (k - 1) * w /\ off <= k * w})

\* C8 as stated: the histogram partitions the value column into `bins`
\* equal-width intervals spanning exactly [min, max], each right-open except
\* the last, which is closed; every row is counted in the interval this
\* assigns it to, so a value equal to an interior bin edge is counted in the
\* bin to the right of that edge.
C8_RightOpenBins ==
    (Returned /\ kind = "histogram" /\ ValueMin < ValueMax) =>
        BarsShow([k \in 1..bins |-> RightOpenCount(k)])

\* C8 amended: the intervals are equal-width from min to max, each left-open
\* and right-closed, the first edge being lowered by 0.1% of the range so that
\* the minimum is counted in the first interval (the x-axis labels it below
\* min); a value equal to an interior bin edge is counted in the bin to the
\* left of that edge.  When all values are equal the intervals span 0.1% of
\* the value (0.001 for 0) to either side of it.
C8_RightClosedBins ==
    (Returned /\ kind = "histogram") =>
        /\ BarsShow([k \in 1..bins |-> RightClosedCount(k)])
        /\ ValueMin < ValueMax =>
               CategoryLabels[1].content =
                   FormatFixed(Norm(1000 * ValueMin - (ValueMax - ValueMin), 1000), 1)

\* two bins over 0, 1, 2: the value 1 lies on the interior edge
C8_Witness ==
    /\ Returned
    /\ kind = "histogram"
    /\ bins = 2
    /\ Column(data, 2) = {0, 1, 2}

\* ------------------------------------------------------------------- C9
\* C9: for every chart type and every valid input, category labels with
\* markup characters such as '<' or '&' included, the string generate()
\* returns is a well-formed XML document with exactly one root <svg> element.
C9_WellFormedSvg == Returned => WellFormed(Document(svg))

\* ------------------------------------------------------------------ C10
\* C10: each CLI command, given CSV data whose column count meets the chart
\* type's minimum, constructs the chart, calls generate() and writes the SVG
\* to the explicit output file, else to the file named after the input, else
\* to stdout, without raising.
C10_CommandWritesSvg ==
    (pc = "exited" /\ ncols >= StatedMinimum(kind)) =>
        /\ error = ""
        /\ written \in {"output", "with_suffix", "stdout"}

\* ------------------------------------------------------------------ C11
\* C11: a BarChart carries no state from one generate() call to the next:
\* after any sequence of generate() calls on the chart, calls that raised
\* part-way included, its inner drawable width is still width - 80.
C11_ChartWidthKept == (pc = "chart" /\ kind = "bar") => chart_width = InnerWidth

\* ------------------------------------------------------------------ C12
\* both value ranges of the hexbin input are non-zero
NonZeroRanges ==
    /\ data # <<>>
    /\ SetMax(Column(data, 2)) # SetMin(Column(data, 2))
    /\ SetMax(Column(data, 3)) # SetMin(Column(data, 3))

\* the grid the chart dimensions give: hexCols columns and hexRows rows
GridCols == HexCols(InnerWidth)

GridRows == HexRows(InnerHeight)

\* the column and row index of a drawn hexagon, read back from its centre
DrawnCol(p) == Trunc(NpDiv(p.x, Norm(3 * hex_size, 2)))

DrawnRow(p) == (p.y_half - (DrawnCol(p) % 2)) \div 2

\* C12: in a hexbin chart with non-zero ranges every drawn hexagon has a
\* column index in 0..hexCols - 1 and a row index in 0..hexRows - 1, the
\* hexagons of the rows holding the maximum values included.
C12_CellsInsideGrid ==
    (Returned /\ kind = "hexbin" /\ NonZeroRanges) =>
        \A i \in 1..Len(PartsTagged("polygon")) :
            LET p == PartsTagged("polygon")[i]
            IN  /\ DrawnCol(p) \in 0..(GridCols - 1)
                /\ DrawnRow(p) \in 0..(GridRows - 1)

\* ------------------------------------------------------------------ C13
\* the cell the i-th input row falls in
CellOfRow(i) ==
    LET x_min == SetMin(Column(data, 2))
        y_min == SetMin(Column(data, 3))
    IN  <<HexIndex(HexNorm(data[i][2], x_min, SetMax(Column(data, 2)) - x_min), GridCols),
          HexIndex(HexNorm(data[i][3], y_min, SetMax(Column(data, 3)) - y_min), GridRows)>>

\* the drawn hexagon the i-th input row is counted in
HexagonOfRow(i) ==
    CHOOSE p \in {PartsTagged("polygon")[k] : k \in 1..Len(PartsTagged("polygon"))} :
        <<DrawnCol(p), DrawnRow(p)>> = CellOfRow(i)

\* the y-axis labels: the end-anchored texts, in document order
YAxisLabels == SelectSeq(svg, LAMBDA p : p.tag = "text" /\ p.anchor = "end")

\* the labels put the minimum at pixel y = innerHeight and the maximum at 0
\* (each text baseline sits 4 pixels below its tick)
LabelsMinAtBottom ==
    /\ Len(YAxisLabels) = 5
    /\ YAxisLabels[1].y = R(InnerHeight + 4)
    /\ YAxisLabels[1].content = FormatFixed(R(SetMin(Column(data, 3))), 1)
    /\ YAxisLabels[5].y = R(4)
    /\ YAxisLabels[5].content = FormatFixed(R(SetMax(Column(data, 3))), 1)

\* C13: in a hexbin chart the y-axis labels put the minimum dependent value
\* at the bottom and the maximum at the top, and of two rows in the same hex
\* column the one with the larger dependent value is never drawn lower on
\* the canvas (at a larger pixel y) than the other.
C13_HexagonsAgreeWithAxis ==
    (Returned /\ kind = "hexbin" /\ NonZeroRanges) =>
        /\ LabelsMinAtBottom
        /\ \A i, j \in 1..Len(data) :
               (/\ CellOfRow(i)[1] = CellOfRow(j)[1]
                /\ data[i][3] > data[j][3])
               => HexagonOfRow(i).y_half <= HexagonOfRow(j).y_half

====
